---------------------------- MODULE Spec2Model ----------------------------
(***************************************************************************)
(* The cleaning-and-derivation pipeline of src/src/cleanup.py.             *)
(*                                                                         *)
(* Strings that the code takes apart (column labels, CSV fields) are       *)
(* sequences of one-character strings.  Numbers are fixed-point with two   *)
(* decimals: a numeric cell holds v = value * 100, so that the result of   *)
(* round(x, 2) is an integer.  A DataFrame is a record                     *)
(*   [index |-> number of rows, columns |-> sequence of columns]           *)
(* and a column is [name, dtype, cells] with one cell per row.             *)
(***************************************************************************)
EXTENDS Integers, Sequences, FiniteSets, TLC

VARIABLES
    names,      \* successive results of the renaming rule on one label
    nfiles,     \* len(csv_files)
    fileno,     \* position of the for loop of __main__ (1-based)
    pc,         \* position of the program
    df,         \* the local df of process_dataset
    prev,       \* df as it was before the stage that ran last
    preFill,    \* df as it was when handle_missing_values was entered
    restrict,   \* confirm == "y" in confirm_and_keep_columns
    out_csv,    \* what df.to_csv wrote for the current file
    summary,    \* what generate_markdown_summary wrote for the current file
    log,        \* lines printed since process_dataset was entered
    last,       \* the function that ran (or raised) last
    results     \* per file: what the run has produced for it so far

vars == <<names, nfiles, fileno, pc, df, prev, preFill, restrict, out_csv,
          summary, log, last, results>>

(***************************************************************************)
(* Bounds                                                                  *)
(***************************************************************************)
MaxNameLen == 4
MaxCols == 3
MaxRows == 2
MaxFiles == 2

(***************************************************************************)
(* Sequence helpers                                                        *)
(***************************************************************************)
SeqsUpTo(S, n) == UNION {[1..k -> S] : k \in 0..n}

Distinct(s) == \A a, b \in DOMAIN s : a # b => s[a] # s[b]

Map(s, F(_)) == [k \in DOMAIN s |-> F(s[k])]

(***************************************************************************)
(* str methods used by clean_column_names                                  *)
(***************************************************************************)
Whitespace == {" ", "\t"}

RECURSIVE LStrip(_)
LStrip(s) ==
    IF s # <<>> /\ Head(s) \in Whitespace THEN LStrip(Tail(s)) ELSE s

RECURSIVE RStrip(_)
RStrip(s) ==
    IF s # <<>> /\ s[Len(s)] \in Whitespace
    THEN RStrip(SubSeq(s, 1, Len(s) - 1))
    ELSE s

\* str.strip()
Strip(s) == RStrip(LStrip(s))

\* str.replace(old, new) for a one-character old; new is a string
RECURSIVE ReplaceChar(_, _, _)
ReplaceChar(s, old, new) ==
    IF s = <<>> THEN <<>>
    ELSE (IF Head(s) = old THEN new ELSE <<Head(s)>>)
         \o ReplaceChar(Tail(s), old, new)

\* str.replace("__", "_"): one pass from the left over non-overlapping
\* occurrences; the text it has produced is not scanned again
RECURSIVE ReplaceDoubleUnderscore(_)
ReplaceDoubleUnderscore(s) ==
    IF Len(s) < 2 THEN s
    ELSE IF s[1] = "_" /\ s[2] = "_"
         THEN <<"_">> \o ReplaceDoubleUnderscore(SubSeq(s, 3, Len(s)))
         ELSE <<Head(s)>> \o ReplaceDoubleUnderscore(Tail(s))

\* the expression of the list comprehension of clean_column_names
CleanName(c) ==
    ReplaceDoubleUnderscore(
        ReplaceChar(
            ReplaceChar(
                ReplaceChar(
                    ReplaceChar(
                        ReplaceChar(Strip(c), " ", <<"_">>),
                        "-", <<>>),
                    "/", <<>>),
                "(", <<>>),
            ")", <<>>))

(***************************************************************************)
(* Column labels                                                           *)
(***************************************************************************)
Name == <<"N","a","m","e">>
WHO_Region == <<"W","H","O","_","R","e","g","i","o","n">>
Cases_cumulative_total ==
    <<"C","a","s","e","s","_","c","u","m","u","l","a","t","i","v","e","_",
      "t","o","t","a","l">>
Cases_newly_reported_in_last_7_days ==
    <<"C","a","s","e","s","_","n","e","w","l","y","_","r","e","p","o","r",
      "t","e","d","_","i","n","_","l","a","s","t","_","7","_","d","a","y",
      "s">>
Cases_newly_reported_in_last_24_hours ==
    <<"C","a","s","e","s","_","n","e","w","l","y","_","r","e","p","o","r",
      "t","e","d","_","i","n","_","l","a","s","t","_","2","4","_","h","o",
      "u","r","s">>
Deaths_cumulative_total ==
    <<"D","e","a","t","h","s","_","c","u","m","u","l","a","t","i","v","e",
      "_","t","o","t","a","l">>
Deaths_newly_reported_in_last_7_days ==
    <<"D","e","a","t","h","s","_","n","e","w","l","y","_","r","e","p","o",
      "r","t","e","d","_","i","n","_","l","a","s","t","_","7","_","d","a",
      "y","s">>
Deaths_newly_reported_in_last_24_hours ==
    <<"D","e","a","t","h","s","_","n","e","w","l","y","_","r","e","p","o",
      "r","t","e","d","_","i","n","_","l","a","s","t","_","2","4","_","h",
      "o","u","r","s">>
Case_Fatality_Rate ==
    <<"C","a","s","e","_","F","a","t","a","l","i","t","y","_","R","a","t",
      "e">>
Weekly_Case_Growth ==
    <<"W","e","e","k","l","y","_","C","a","s","e","_","G","r","o","w","t",
      "h","_","%">>
Unknown == <<"U","n","k","n","o","w","n">>

IMPORTANT_COLUMNS ==
    << Name,
       WHO_Region,
       Cases_cumulative_total,
       Cases_newly_reported_in_last_7_days,
       Cases_newly_reported_in_last_24_hours,
       Deaths_cumulative_total,
       Deaths_newly_reported_in_last_7_days,
       Deaths_newly_reported_in_last_24_hours >>


(***************************************************************************)
(* Cells and numbers                                                       *)
(***************************************************************************)
NaN == [t |-> "nan", v |-> 0, s |-> <<>>]

Num(x) == [t |-> "num", v |-> x, s |-> <<>>]

Str(x) == [t |-> "str", v |-> 0, s |-> x]

\* Series.isnull() of one cell
IsNull(c) == c.t = "nan"

Digits == <<"0","1","2","3","4","5","6","7","8","9">>

IsDigit(ch) == \E k \in DOMAIN Digits : Digits[k] = ch

DigitVal(ch) == (CHOOSE k \in DOMAIN Digits : Digits[k] = ch) - 1

RECURSIVE DigitsVal(_)
DigitsVal(s) ==
    IF s = <<>> THEN 0
    ELSE 10 * DigitsVal(SubSeq(s, 1, Len(s) - 1)) + DigitVal(s[Len(s)])

Unsigned(s) == IF s # <<>> /\ Head(s) = "-" THEN Tail(s) ELSE s

\* whether the parser of pandas accepts the text as a number (the model
\* has integer literals with an optional minus sign)
IsNumberText(s) ==
    /\ Unsigned(s) # <<>>
    /\ \A k \in DOMAIN Unsigned(s) : IsDigit(Unsigned(s)[k])

\* the number the text denotes, in hundredths
ToNumber(s) ==
    IF s # <<>> /\ Head(s) = "-"
    THEN 0 - 100 * DigitsVal(Tail(s))
    ELSE 100 * DigitsVal(s)

\* a / b rounded to the nearest integer, ties to the even one (numpy's
\* rint, which Series.round(2) applies to the value times 100)
RoundHalfEven(a, b) ==
    LET n == IF b < 0 THEN 0 - a ELSE a
        d == IF b < 0 THEN 0 - b ELSE b
        q == n \div d
        r == n % d
    IN  IF 2 * r < d THEN q
        ELSE IF 2 * r > d THEN q + 1
        ELSE IF q % 2 = 0 THEN q ELSE q + 1

(***************************************************************************)
(* DataFrames                                                              *)
(***************************************************************************)
Column(n, d, c) == [name |-> n, dtype |-> d, cells |-> c]

Frame(n, cols) == [index |-> n, columns |-> cols]

NoFrame == Frame(0, <<>>)

\* df.columns
Labels(f) == Map(f.columns, LAMBDA c : c.name)

\* col in df.columns
HasColumn(f, n) == \E k \in DOMAIN f.columns : f.columns[k].name = n

\* df[col] for a label that occurs once
Col(f, n) == f.columns[CHOOSE k \in DOMAIN f.columns : f.columns[k].name = n]

\* pd.api.types.is_numeric_dtype(df[col])
IsNumericDtype(c) == c.dtype = "numeric"

\* df[key] = value: replaces the column of that label where it stands, or
\* appends a new column
SetColumn(f, c) ==
    IF HasColumn(f, c.name)
    THEN Frame(f.index,
               [k \in DOMAIN f.columns |->
                    IF f.columns[k].name = c.name THEN c ELSE f.columns[k]])
    ELSE Frame(f.index, Append(f.columns, c))

(***************************************************************************)
(* The input files and pd.read_csv                                         *)
(***************************************************************************)
H_Name == <<"N","a","m","e">>
H_Cases ==
    <<"C","a","s","e","s"," ","-"," ","c","u","m","u","l","a","t","i","v",
      "e"," ","t","o","t","a","l">>
H_Deaths ==
    <<"D","e","a","t","h","s"," ","-"," ","c","u","m","u","l","a","t","i",
      "v","e"," ","t","o","t","a","l">>
H_Weekly ==
    <<"C","a","s","e","s"," ","-"," ","n","e","w","l","y"," ","r","e","p",
      "o","r","t","e","d"," ","i","n"," ","l","a","s","t"," ","7"," ","d",
      "a","y","s">>
\* a second header that the renaming rule maps to Cases_cumulative_total
H_Cases2 == Cases_cumulative_total

RawHeaders == {H_Name, H_Cases, H_Deaths, H_Weekly, H_Cases2}

CsvRow(n, c, d, w, c2) ==
    (H_Name :> n) @@ (H_Cases :> c) @@ (H_Deaths :> d) @@ (H_Weekly :> w)
        @@ (H_Cases2 :> c2)

\* the data rows the input files are made of; <<>> is an empty field
CsvRows ==
    { CsvRow(<<"y">>, <<"3">>, <<"2">>, <<"1">>, <<"3">>),
      CsvRow(<<"x">>, <<"0">>, <<"1">>, <<"2">>, <<"0">>),
      CsvRow(<<"y">>, <<"-","4">>, <<"1">>, <<"2">>, <<"x">>),
      CsvRow(<<>>, <<>>, <<>>, <<>>, <<>>),
      CsvRow(<<"x">>, <<"x">>, <<"1">>, <<"x">>, <<"4">>),
      CsvRow(<<>>, <<"0">>, <<"x">>, <<"2">>, <<>>) }

\* a parsed file: a header of distinct labels (read_csv renames repeated
\* ones) and rows with one field per label
CsvFiles ==
    { [header |-> h, rows |-> r] :
        h \in {x \in SeqsUpTo(RawHeaders, MaxCols) : x # <<>> /\ Distinct(x)},
        r \in SeqsUpTo(CsvRows, MaxRows) }

\* the fields of column h, as read without type inference: an empty field
\* is NaN, any other a str
ObjectCells(file, h) ==
    [r \in DOMAIN file.rows |->
        IF file.rows[r][h] = <<>> THEN NaN ELSE Str(file.rows[r][h])]

\* the column as errors="coerce" would convert it: every value that does
\* not convert becomes NaN
ToNumericCoerce(c) ==
    IF IsNumericDtype(c) THEN c
    ELSE Column(c.name, "numeric",
                [r \in DOMAIN c.cells |->
                    IF c.cells[r].t = "str" /\ IsNumberText(c.cells[r].s)
                    THEN Num(ToNumber(c.cells[r].s))
                    ELSE NaN])

\* pd.to_numeric(arg, errors="ignore") on one column: the converted column
\* if every value that is not NaN converts, the argument itself otherwise
ToNumericIgnore(c) ==
    IF IsNumericDtype(c) THEN c
    ELSE IF \A r \in DOMAIN c.cells :
                c.cells[r].t = "str" => IsNumberText(c.cells[r].s)
         THEN Column(c.name, "numeric",
                     [r \in DOMAIN c.cells |->
                         IF c.cells[r].t = "str"
                         THEN Num(ToNumber(c.cells[r].s))
                         ELSE c.cells[r]])
         ELSE c

\* the frame of a file whose columns are all left as object
ObjectFrame(file) ==
    Frame(Len(file.rows),
          [k \in DOMAIN file.header |->
              Column(file.header[k], "object",
                     ObjectCells(file, file.header[k]))])

\* pd.read_csv(file_path) of a file that parses: each column gets a numeric
\* dtype if all of its fields that are not empty are numbers
ReadCsv(file) ==
    Frame(Len(file.rows),
          Map(ObjectFrame(file).columns, ToNumericIgnore))

(***************************************************************************)
(* The stages of process_dataset, as functions of the frame                *)
(***************************************************************************)
Line(m, c) == [msg |-> m, col |-> c]

\* clean_column_names: every label replaced by its cleaned form
clean_column_names(f) ==
    Frame(f.index,
          Map(f.columns, LAMBDA c : Column(CleanName(c.name), c.dtype, c.cells)))

\* simplify_numeric_columns raises where df[col] is not a Series: with a
\* label that occurs twice df[col] is a DataFrame, which has no .dtype
SimplifyRaises(f) == ~Distinct(Labels(f))

\* simplify_numeric_columns, when it does not raise
simplify_numeric_columns(f) == Frame(f.index, Map(f.columns, ToNumericIgnore))

\* the lines simplify_numeric_columns prints: one per column whose dtype
\* changed
RECURSIVE ConvertedLines(_, _)
ConvertedLines(before, after) ==
    IF before = <<>> THEN <<>>
    ELSE (IF Head(before).dtype # Head(after).dtype
          THEN <<Line("Converted", Head(before).name)>>
          ELSE <<>>)
         \o ConvertedLines(Tail(before), Tail(after))

\* df[col].isnull().sum()
MissingCount(c) == Cardinality({r \in DOMAIN c.cells : IsNull(c.cells[r])})

\* df.isnull().sum().sum()
RECURSIVE TotalMissing(_)
TotalMissing(cols) ==
    IF cols = <<>> THEN 0
    ELSE MissingCount(Head(cols)) + TotalMissing(Tail(cols))

\* a fill value that does not look at the dtype
FillValueZero(c) == Num(0)

\* the value fillna is given for a column
FillValue(c) == IF IsNumericDtype(c) THEN Num(0) ELSE Str(Unknown)

\* df.fillna({col: value}) on one column
FillColumn(c) ==
    Column(c.name, c.dtype,
           [r \in DOMAIN c.cells |->
               IF IsNull(c.cells[r]) THEN FillValue(c) ELSE c.cells[r]])

\* handle_missing_values
handle_missing_values(f) ==
    IF TotalMissing(f.columns) = 0 THEN f
    ELSE Frame(f.index, Map(f.columns, FillColumn))

\* the lines handle_missing_values prints
MissingLines(f) ==
    IF TotalMissing(f.columns) = 0 THEN <<Line("No missing values found", <<>>)>>
    ELSE <<Line("Found missing values", <<>>)>>

\* the condition of the lambda, x["Cases_cumulative_total"] > 0; comparing
\* a str with 0 raises TypeError, NaN > 0 is False
DenominatorRaises(den) == den.t = "str"

DenominatorPositive(den) == den.t = "num" /\ den.v > 0

\* whether the lambda raises on row r: in the comparison, or in the
\* division when the numerator is a str
RowRaises(f, num, r) ==
    LET den == Col(f, Cases_cumulative_total).cells[r]
        n   == Col(f, num).cells[r]
    IN  \/ DenominatorRaises(den)
        \/ DenominatorPositive(den) /\ n.t = "str"

\* the value of the lambda on row r, after .round(2)
RowValue(f, num, r) ==
    LET den == Col(f, Cases_cumulative_total).cells[r]
        n   == Col(f, num).cells[r]
    IN  IF DenominatorPositive(den)
        THEN IF n.t = "nan" THEN NaN
             ELSE Num(RoundHalfEven(n.v * 100 * 100, den.v))
        ELSE Num(0)

\* the guard of one metric of add_derived_metrics
MetricInputsPresent(f, num) ==
    HasColumn(f, num) /\ HasColumn(f, Cases_cumulative_total)

\* one metric of add_derived_metrics: [raised, df, log].  df.apply(axis=1)
\* of a frame without rows does not call the lambda on rows: depending on
\* the pandas release it returns a copy of the frame, whose assignment to
\* one column raises ValueError (legacy), or an empty Series
AddMetric(f, num, out, legacy) ==
    IF ~MetricInputsPresent(f, num)
    THEN [raised |-> FALSE, df |-> f, log |-> <<>>]
    ELSE IF f.index = 0
    THEN IF legacy
         THEN [raised |-> TRUE, df |-> f, log |-> <<>>]
         ELSE [raised |-> FALSE,
               df |-> SetColumn(f, Column(out, "numeric", <<>>)),
               log |-> <<Line("Added", out)>>]
    ELSE IF \E r \in 1..f.index : RowRaises(f, num, r)
    THEN [raised |-> TRUE, df |-> f, log |-> <<>>]
    ELSE [raised |-> FALSE,
          df |-> SetColumn(f, Column(out, "numeric",
                                     [r \in 1..f.index |-> RowValue(f, num, r)])),
          log |-> <<Line("Added", out)>>]

\* add_derived_metrics: Case_Fatality_Rate, then Weekly_Case_Growth_%
add_derived_metrics(f, legacy) ==
    LET a == AddMetric(f, Deaths_cumulative_total, Case_Fatality_Rate, legacy)
        b == AddMetric(a.df, Cases_newly_reported_in_last_7_days,
                       Weekly_Case_Growth, legacy)
    IN  IF a.raised THEN a
        ELSE [raised |-> b.raised, df |-> b.df, log |-> a.log \o b.log]

\* [col for col in df.columns if col in IMPORTANT_COLUMNS]: the kept
\* columns in the order of the frame
KeptColumnsInFrameOrder(f, allow) ==
    SelectSeq(f.columns, LAMBDA c : \E k \in DOMAIN allow : allow[k] = c.name)

\* [col for col in IMPORTANT_COLUMNS if col in df.columns]
RECURSIVE KeptColumns(_, _)
KeptColumns(f, allow) ==
    IF allow = <<>> THEN <<>>
    ELSE (IF HasColumn(f, Head(allow)) THEN <<Col(f, Head(allow))>> ELSE <<>>)
         \o KeptColumns(f, Tail(allow))

\* a projector that does not ask: it keeps the allow-list columns whatever
\* the answer
KeepColumnsUnasked(f, confirm) == Frame(f.index, KeptColumns(f, IMPORTANT_COLUMNS))

\* confirm_and_keep_columns, given whether the answer was "y"
confirm_and_keep_columns(f, confirm) ==
    IF confirm THEN Frame(f.index, KeptColumns(f, IMPORTANT_COLUMNS)) ELSE f

\* (df[col].isnull().sum() / len(df)) * 100 with two decimals, in
\* hundredths; 0 / 0 is nan
MissingPct(f, c) ==
    IF f.index = 0 THEN NaN
    ELSE Num(RoundHalfEven(MissingCount(c) * 100 * 100, f.index))

\* one table line of generate_markdown_summary (the number of unique
\* values, the examples and the statistics are left out)
SummaryLine(f, c) ==
    [name |-> c.name, dtype |-> c.dtype, missing_pct |-> MissingPct(f, c)]

\* generate_markdown_summary: the text written to the summary file
generate_markdown_summary(f) ==
    [rows |-> f.index, columns |-> Len(f.columns),
     lines |-> Map(f.columns, LAMBDA c : SummaryLine(f, c))]

NoSummary == [rows |-> 0, columns |-> 0, lines |-> <<>>]

(***************************************************************************)
(* The run: __main__ and process_dataset                                   *)
(***************************************************************************)
NoResult == [read_failed |-> FALSE, saved |-> FALSE, summarized |-> FALSE]

\* the files of the several-file runs: one that cleans without error, one
\* without data rows, one whose case counts hold a text, one whose headers
\* clean to the same label
SampleFiles ==
    { [header |-> <<H_Name, H_Cases, H_Deaths>>,
       rows |-> <<CsvRow(<<"x">>, <<"4">>, <<"1">>, <<"2">>, <<"4">>),
                  CsvRow(<<>>, <<"0">>, <<>>, <<"2">>, <<>>)>>],
      [header |-> <<H_Cases, H_Weekly>>, rows |-> <<>>],
      [header |-> <<H_Deaths, H_Cases>>,
       rows |-> <<CsvRow(<<"x">>, <<"x">>, <<"1">>, <<"x">>, <<"4">>)>>],
      [header |-> <<H_Cases, H_Cases2>>,
       rows |-> <<CsvRow(<<"x">>, <<"4">>, <<"1">>, <<"2">>, <<"4">>)>>] }

FreshCall ==
    /\ df' = NoFrame
    /\ prev' = NoFrame
    /\ preFill' = NoFrame
    /\ restrict' = FALSE
    /\ out_csv' = NoFrame
    /\ summary' = NoSummary

\* for f in csv_files: process_dataset(f)
MainLoop ==
    /\ pc = "main"
    /\ fileno <= nfiles
    /\ pc' = "read"
    /\ FreshCall
    /\ log' = <<Line("Processing file", <<>>)>>
    /\ last' = "main"
    /\ UNCHANGED <<names, nfiles, fileno, results>>

\* the loop is over (or there was no file): "All done"
MainDone ==
    /\ pc = "main"
    /\ fileno > nfiles
    /\ pc' = "done"
    /\ last' = "main"
    /\ UNCHANGED <<names, nfiles, fileno, df, prev, preFill, restrict,
                   out_csv, summary, log, results>>

\* pd.read_csv raises: the except clause prints and returns
ReadFails ==
    /\ pc = "read"
    /\ log' = Append(log, Line("Failed to read", <<>>))
    /\ results' = [results EXCEPT ![fileno].read_failed = TRUE]
    /\ fileno' = fileno + 1
    /\ pc' = "main"
    /\ last' = "read_csv"
    /\ UNCHANGED <<names, nfiles, df, prev, preFill, restrict, out_csv,
                   summary>>

\* pd.read_csv returns the frame of one of the files
ReadOk(files) ==
    /\ pc = "read"
    /\ \E file \in files :
        /\ df' = ReadCsv(file)
        /\ prev' = ObjectFrame(file)
    /\ log' = Append(log, Line("Loaded", <<>>))
    /\ pc' = "clean"
    /\ last' = "read_csv"
    /\ UNCHANGED <<names, nfiles, fileno, preFill, restrict, out_csv,
                   summary, results>>

CleanColumnNames ==
    /\ pc = "clean"
    /\ df' = clean_column_names(df)
    /\ prev' = df
    /\ pc' = "coerce"
    /\ last' = "clean_column_names"
    /\ log' = Append(log, Line("Cleaning column names", <<>>))
    /\ UNCHANGED <<names, nfiles, fileno, preFill, restrict, out_csv,
                   summary, results>>

\* an exception that nothing catches ends the program
Raise(fn) ==
    /\ pc' = "raised"
    /\ last' = fn
    /\ UNCHANGED <<names, nfiles, fileno, df, prev, preFill, restrict,
                   out_csv, summary, log, results>>

SimplifyNumericColumns ==
    /\ pc = "coerce"
    /\ IF SimplifyRaises(df)
       THEN Raise("simplify_numeric_columns")
       ELSE /\ df' = simplify_numeric_columns(df)
            /\ prev' = df
            /\ pc' = "fill"
            /\ last' = "simplify_numeric_columns"
            /\ log' = log \o ConvertedLines(df.columns,
                                            simplify_numeric_columns(df).columns)
            /\ UNCHANGED <<names, nfiles, fileno, preFill, restrict, out_csv,
                           summary, results>>

HandleMissingValues ==
    /\ pc = "fill"
    /\ df' = handle_missing_values(df)
    /\ prev' = df
    /\ preFill' = df
    /\ pc' = "metrics"
    /\ last' = "handle_missing_values"
    /\ log' = log \o MissingLines(df)
    /\ UNCHANGED <<names, nfiles, fileno, restrict, out_csv, summary,
                   results>>

AddDerivedMetrics ==
    /\ pc = "metrics"
    /\ \E legacy \in BOOLEAN :
        LET o == add_derived_metrics(df, legacy)
        IN  IF o.raised
            THEN Raise("add_derived_metrics")
            ELSE /\ df' = o.df
                 /\ prev' = df
                 /\ pc' = "project"
                 /\ last' = "add_derived_metrics"
                 /\ log' = log \o o.log
                 /\ UNCHANGED <<names, nfiles, fileno, preFill, restrict,
                                out_csv, summary, results>>

\* the answer to the prompt is "y" or anything else
ConfirmAndKeepColumns ==
    /\ pc = "project"
    /\ \E confirm \in BOOLEAN :
        /\ restrict' = confirm
        /\ df' = confirm_and_keep_columns(df, confirm)
    /\ prev' = df
    /\ pc' = "save"
    /\ last' = "confirm_and_keep_columns"
    /\ UNCHANGED <<names, nfiles, fileno, preFill, out_csv, summary, log,
                   results>>

\* df.to_csv(out_path, index=False)
SaveCsv ==
    /\ pc = "save"
    /\ out_csv' = df
    /\ results' = [results EXCEPT ![fileno].saved = TRUE]
    /\ pc' = "report"
    /\ last' = "to_csv"
    /\ UNCHANGED <<names, nfiles, fileno, df, prev, preFill, restrict,
                   summary, log>>

\* generate_markdown_summary(df, file_path.name), then process_dataset
\* returns
GenerateMarkdownSummary ==
    /\ pc = "report"
    /\ summary' = generate_markdown_summary(df)
    /\ results' = [results EXCEPT ![fileno].summarized = TRUE]
    /\ fileno' = fileno + 1
    /\ pc' = "main"
    /\ last' = "generate_markdown_summary"
    /\ UNCHANGED <<names, nfiles, df, prev, preFill, restrict, out_csv, log>>

Stages ==
    \/ CleanColumnNames
    \/ SimplifyNumericColumns
    \/ HandleMissingValues
    \/ AddDerivedMetrics
    \/ ConfirmAndKeepColumns
    \/ SaveCsv
    \/ GenerateMarkdownSummary

InitCall ==
    /\ names = <<>>
    /\ prev = NoFrame
    /\ preFill = NoFrame
    /\ restrict = FALSE
    /\ out_csv = NoFrame
    /\ summary = NoSummary
    /\ log = <<>>
    /\ last = ""

(***************************************************************************)
(* Spec: a run of the program over one input file                          *)
(***************************************************************************)
Init ==
    /\ InitCall
    /\ nfiles = 1
    /\ fileno = 1
    /\ pc = "main"
    /\ df = NoFrame
    /\ results = [k \in 1..1 |-> NoResult]

Next ==
    \/ MainLoop
    \/ MainDone
    \/ ReadFails
    \/ ReadOk(CsvFiles)
    \/ Stages

Spec == Init /\ [][Next]_vars

(***************************************************************************)
(* SpecMain: a run over up to MaxFiles input files                         *)
(***************************************************************************)
InitMain ==
    /\ InitCall
    /\ nfiles \in 0..MaxFiles
    /\ fileno = 1
    /\ pc = "main"
    /\ df = NoFrame
    /\ results = [k \in 1..nfiles |-> NoResult]

NextMain ==
    \/ MainLoop
    \/ MainDone
    \/ ReadFails
    \/ ReadOk(SampleFiles)
    \/ Stages

SpecMain == InitMain /\ [][NextMain]_vars

(***************************************************************************)
(* SpecStages: the stages of process_dataset applied in their order to a   *)
(* frame whose columns are all object columns of str and NaN               *)
(***************************************************************************)
InitStages ==
    /\ InitCall
    /\ nfiles = 1
    /\ fileno = 1
    /\ pc = "clean"
    /\ df \in {ObjectFrame(file) : file \in CsvFiles}
    /\ results = [k \in 1..1 |-> NoResult]

NextStages == Stages \/ MainDone

SpecStages == InitStages /\ [][NextStages]_vars

(***************************************************************************)
(* SpecNames: the renaming rule of clean_column_names applied again and    *)
(* again to one label                                                      *)
(***************************************************************************)
NameAlphabet == {"a", " ", "_", "-", "("}

InitNames ==
    /\ names \in {<<raw>> : raw \in SeqsUpTo(NameAlphabet, MaxNameLen)}
    /\ nfiles = 0
    /\ fileno = 1
    /\ pc = "names"
    /\ df = NoFrame
    /\ prev = NoFrame
    /\ preFill = NoFrame
    /\ restrict = FALSE
    /\ out_csv = NoFrame
    /\ summary = NoSummary
    /\ log = <<>>
    /\ last = ""
    /\ results = <<>>

Rename ==
    /\ pc = "names"
    /\ Len(names) < 3
    /\ names' = Append(names, CleanName(names[Len(names)]))
    /\ last' = "clean_column_names"
    /\ UNCHANGED <<nfiles, fileno, pc, df, prev, preFill, restrict, out_csv,
                   summary, log, results>>

NextNames == Rename

SpecNames == InitNames /\ [][NextNames]_vars

(***************************************************************************)
(* Properties                                                              *)
(***************************************************************************)
CleanFatality == <<Deaths_cumulative_total, Case_Fatality_Rate>>

CleanGrowth == <<Cases_newly_reported_in_last_7_days, Weekly_Case_Growth>>

\* the two derived metrics: <<numerator column, metric column>>
Metrics == {CleanFatality, CleanGrowth}

\* add_derived_metrics has just returned
AfterMetrics == last = "add_derived_metrics" /\ pc = "project"

\* column n exists in frame f with a numeric dtype
NumericIn(f, n) == HasColumn(f, n) /\ Col(f, n).dtype = "numeric"

\* round(numerator / denominator * 100, 2) if denominator != 0 else 0, on
\* numbers in hundredths
Ratio(n, d) == IF d # 0 THEN RoundHalfEven(n * 100 * 100, d) ELSE 0

\* C1: after add_derived_metrics, on a table whose input columns of a
\* metric are Numeric, every row of the metric column holds
\* round(numerator / denominator * 100, 2) when the row's denominator is
\* not 0 (negative ones included) and 0 when it is 0, computed from that
\* row's own numerator and denominator.
C1_RatioForEveryNonzeroDenominator ==
    AfterMetrics =>
        \A m \in Metrics :
            (NumericIn(prev, m[1]) /\ NumericIn(prev, Cases_cumulative_total)) =>
                /\ HasColumn(df, m[2])
                /\ \A r \in 1..prev.index :
                    Col(df, m[2]).cells[r] =
                        Num(Ratio(Col(prev, m[1]).cells[r].v,
                                  Col(prev, Cases_cumulative_total).cells[r].v))

\* C2: cleaning a column name that has been cleaned returns it unchanged:
\* the second application of the renaming rule gives what the first gave.
C2_CleanNameIdempotent == Len(names) = 3 => names[3] = names[2]

\* the share of Missing cells of column n in the table that
\* handle_missing_values was given, as generate_markdown_summary formats it
PreImputationPct(n) == MissingPct(preFill, Col(preFill, n))

\* C3: for every column of the summary that the table had before the
\* missing values were filled, the reported missing percentage is the
\* share of that column's cells that were Missing before the filling.
C3_SummaryReportsPreImputationMissing ==
    last = "generate_markdown_summary" =>
        \A k \in DOMAIN summary.lines :
            HasColumn(preFill, summary.lines[k].name) =>
                summary.lines[k].missing_pct =
                    PreImputationPct(summary.lines[k].name)

\* column n of frame f holds a number in every row
FilledNumeric(f, n) ==
    /\ NumericIn(f, n)
    /\ \A r \in DOMAIN Col(f, n).cells : Col(f, n).cells[r].t = "num"

\* the input columns of metric m existed in the input
MetricInputsExisted(m) ==
    HasColumn(preFill, m[1]) /\ HasColumn(preFill, Cases_cumulative_total)

\* C4 as stated: whatever the restrict decision, the table that
\* process_dataset persists contains each derived metric whose input
\* columns existed in the input, filled with non-missing numbers.
C4_SavedHasMetricsOriginal ==
    last = "to_csv" =>
        \A m \in Metrics : MetricInputsExisted(m) => FilledNumeric(out_csv, m[2])

\* C4 as amended: with the restrict decision false the persisted table
\* contains each derived metric whose input columns existed in the input,
\* filled with non-missing numbers; with the restrict decision true the
\* persisted table contains neither derived metric.
C4_SavedHasMetricsUnlessRestricted ==
    last = "to_csv" =>
        \A m \in Metrics :
            IF restrict
            THEN ~HasColumn(out_csv, m[2])
            ELSE MetricInputsExisted(m) => FilledNumeric(out_csv, m[2])

C4_Witness ==
    /\ last = "to_csv"
    /\ ~restrict
    /\ out_csv.index > 0
    /\ \A m \in Metrics : MetricInputsExisted(m) /\ FilledNumeric(out_csv, m[2])

\* a warning about the omitted metric column n has been printed
WarnedOmitted(n) ==
    \E k \in DOMAIN log : log[k].col = n /\ log[k].msg \notin {"Added", "Converted"}

\* C5: after add_derived_metrics a metric column exists only if both of
\* its input columns were present as Numeric columns, and a metric whose
\* input is absent or not Numeric is omitted with a warning printed.
C5_MetricOnlyFromNumericInputs ==
    AfterMetrics =>
        \A m \in Metrics :
            IF NumericIn(prev, m[1]) /\ NumericIn(prev, Cases_cumulative_total)
            THEN HasColumn(df, m[2])
            ELSE ~HasColumn(df, m[2]) /\ WarnedOmitted(m[2])

\* C6: once a file is parsed, no stage of the pipeline ends in an error.
C6_NoStageRaises == pc # "raised"

\* C7: after handle_missing_values the table has the rows, columns, labels
\* and dtypes it had, no cell is Missing, every Missing cell of a Numeric
\* column is 0 and of a Text column is "Unknown", every other cell is
\* unchanged, and a table without Missing cells is returned as it was.
C7_FillIsTotal ==
    last = "handle_missing_values" =>
        /\ df.index = prev.index
        /\ DOMAIN df.columns = DOMAIN prev.columns
        /\ \A k \in DOMAIN prev.columns :
            LET p == prev.columns[k]
                c == df.columns[k]
            IN  /\ c.name = p.name
                /\ c.dtype = p.dtype
                /\ DOMAIN c.cells = DOMAIN p.cells
                /\ \A r \in DOMAIN p.cells :
                    /\ c.cells[r].t # "nan"
                    /\ IF p.cells[r].t = "nan"
                       THEN IF p.dtype = "numeric"
                            THEN c.cells[r] = Num(0)
                            ELSE c.cells[r] = Str(Unknown)
                       ELSE c.cells[r] = p.cells[r]
        /\ (\A k \in DOMAIN prev.columns : \A r \in DOMAIN prev.columns[k].cells :
                prev.columns[k].cells[r].t # "nan") => df = prev

HasMissing(c) == \E r \in DOMAIN c.cells : c.cells[r].t = "nan"

C7_Witness ==
    /\ last = "handle_missing_values"
    /\ \E k \in DOMAIN prev.columns :
        /\ prev.columns[k].dtype = "numeric"
        /\ HasMissing(prev.columns[k])
        /\ \E r \in DOMAIN prev.columns[k].cells : prev.columns[k].cells[r].t = "num"
    /\ \E k \in DOMAIN prev.columns :
        prev.columns[k].dtype = "object" /\ HasMissing(prev.columns[k])

\* the place of a label in the allow-list
AllowPos(n) == CHOOSE k \in DOMAIN IMPORTANT_COLUMNS : IMPORTANT_COLUMNS[k] = n

OnAllowList(n) == \E k \in DOMAIN IMPORTANT_COLUMNS : IMPORTANT_COLUMNS[k] = n

\* C8: with the restrict decision true the projector's output has exactly
\* the allow-list columns that exist in its input, once each, in allow-list
\* order, each with the cells it had; with the decision false the output
\* is the input; the number of rows is unchanged in both cases.
C8_ProjectorKeepsAllowListInOrder ==
    last = "confirm_and_keep_columns" =>
        /\ df.index = prev.index
        /\ IF restrict
           THEN /\ \A k \in DOMAIN df.columns :
                    /\ OnAllowList(df.columns[k].name)
                    /\ HasColumn(prev, df.columns[k].name)
                    /\ df.columns[k] = Col(prev, df.columns[k].name)
                /\ \A k \in DOMAIN prev.columns :
                    OnAllowList(prev.columns[k].name) =>
                        HasColumn(df, prev.columns[k].name)
                /\ \A a, b \in DOMAIN df.columns :
                    a < b => AllowPos(df.columns[a].name) < AllowPos(df.columns[b].name)
           ELSE df = prev

C8_Witness ==
    /\ last = "confirm_and_keep_columns"
    /\ restrict
    /\ df.index > 0
    /\ Len(df.columns) >= 2
    /\ Len(df.columns) < Len(prev.columns)
    /\ \E a, b \in DOMAIN prev.columns :
        /\ a < b
        /\ OnAllowList(prev.columns[a].name)
        /\ OnAllowList(prev.columns[b].name)
        /\ AllowPos(prev.columns[a].name) > AllowPos(prev.columns[b].name)

\* every value of the column that is not Missing parses as a number
AllParse(c) ==
    \A r \in DOMAIN c.cells : c.cells[r].t = "str" => IsNumberText(c.cells[r].s)

\* C9: simplify_numeric_columns makes a Text column Numeric exactly if all
\* its values that are not Missing parse as numbers, each value then being
\* the number it denotes; otherwise the column is left as it was; Missing
\* cells stay Missing in both cases; and a Numeric column is still Numeric
\* after handle_missing_values and after add_derived_metrics.
C9_CoercionAllOrNothing ==
    /\ (last = "simplify_numeric_columns" /\ pc = "fill") =>
        /\ df.index = prev.index
        /\ DOMAIN df.columns = DOMAIN prev.columns
        /\ \A k \in DOMAIN prev.columns :
            LET p == prev.columns[k]
                c == df.columns[k]
            IN  /\ c.name = p.name
                /\ DOMAIN c.cells = DOMAIN p.cells
                /\ (c.dtype = "numeric") <=> (p.dtype = "numeric" \/ AllParse(p))
                /\ ~(p.dtype = "numeric" \/ AllParse(p)) => c = p
                /\ \A r \in DOMAIN p.cells :
                    /\ (p.cells[r].t = "nan") <=> (c.cells[r].t = "nan")
                    /\ (AllParse(p) /\ p.cells[r].t = "str") =>
                            c.cells[r] = Num(ToNumber(p.cells[r].s))
    /\ (last \in {"handle_missing_values", "add_derived_metrics"}) =>
        \A k \in DOMAIN prev.columns :
            prev.columns[k].dtype = "numeric" => NumericIn(df, prev.columns[k].name)

C9_Witness ==
    /\ last = "simplify_numeric_columns"
    /\ pc = "fill"
    /\ \E k \in DOMAIN prev.columns :
        /\ prev.columns[k].dtype = "object"
        /\ df.columns[k].dtype = "numeric"
        /\ HasMissing(prev.columns[k])
        /\ \E r \in DOMAIN prev.columns[k].cells : prev.columns[k].cells[r].t = "str"
    /\ \E k \in DOMAIN prev.columns :
        /\ df.columns[k].dtype = "object"
        /\ \E r \in DOMAIN prev.columns[k].cells :
            prev.columns[k].cells[r].t = "str" /\ IsNumberText(prev.columns[k].cells[r].s)
        /\ \E r \in DOMAIN prev.columns[k].cells :
            prev.columns[k].cells[r].t = "str" /\ ~IsNumberText(prev.columns[k].cells[r].s)

\* C10: when the run has ended, a file whose reading failed has a reported
\* failure, no cleaned table and no summary, and every other file of the
\* run has its cleaned table and its summary.
C10_OtherFilesProcessed ==
    (pc \in {"done", "raised"} /\ \E k \in 1..nfiles : results[k].read_failed) =>
        \A k \in 1..nfiles :
            IF results[k].read_failed
            THEN ~results[k].saved /\ ~results[k].summarized
            ELSE results[k].saved /\ results[k].summarized

=============================================================================
